---- MODULE Spec2Model ----
(***************************************************************************)
(* Recursive-descent grammar rules of vhdl_parser: attribute syntax        *)
(* (attributes.rs) and subprogram / signature syntax (subprogram.rs).      *)
(*                                                                         *)
(* A token stream is a sequence of classified tokens and a cursor.  Every  *)
(* rule is an operator from the stream (and, where the Rust function takes *)
(* it, the diagnostics sink `messages`) to a ParseResult that also carries *)
(* the stream and sink as the rule left them (the `&mut` parameters).      *)
(* The state machine drives the public rules over every token stream the   *)
(* rules can tell apart, one token at a time.                              *)
(***************************************************************************)
EXTENDS Integers, Sequences, FiniteSets, TLC

VARIABLES
    stream,         \* the TokenStream: [toks, pos]; pos = tokens consumed
    messages,       \* the MessageHandler (diagnostics sink), a sequence
    rule,           \* the rule this run calls
    specification,  \* the SubprogramDeclaration handed to parse_subprogram_body
    entry,          \* the sink's contents when the rule was entered
    limit,          \* the longest token stream this run feeds the rule
    result          \* the ParseResult the rule returned, Idle before the call

vars == <<stream, messages, rule, specification, entry, limit, result>>

----------------------------------------------------------------------------
(* Bounds of the model *)

\* longest token stream fed to a rule when all rules are run side by side
MaxLen == 4
\* longest token stream fed to parse_attribute
MaxAttributeLen == 11
\* longest token stream fed to parse_entity_name_list and parse_entity_class
MaxEntityNameLen == 6
\* longest token stream fed to parse_signature and parse_designator
MaxSignatureLen == 7
\* longest token stream fed to the specification and body rules of subprogram.rs
MaxSubprogramLen == 6

----------------------------------------------------------------------------
(* Tokens: use tokenizer::Kind::*  *)

EntityClassKinds ==
    {"Entity", "Architecture", "Configuration", "Package",
     "Signal", "Variable", "Procedure", "Function"}

Kinds ==
    EntityClassKinds \cup
    {"Attribute", "Identifier", "StringLiteral", "AbstractLiteral",
     "Colon", "SemiColon", "Comma", "Dot", "Of", "Is", "Others", "All",
     "LeftSquare", "RightSquare", "LeftPar", "RightPar",
     "Return", "Impure", "Begin", "End", "Else"}

\* payloads of the identifier, string literal and abstract literal tokens
IdentTexts == {"a", "b"}
StringTexts == {"+"}
LiteralTexts == {"0"}

Tok(kind, text) == [kind |-> kind, text |-> text]

Tokens ==
    {Tok(k, "") : k \in Kinds \ {"Identifier", "StringLiteral", "AbstractLiteral"}}
    \cup {Tok("Identifier", x) : x \in IdentTexts}
    \cup {Tok("StringLiteral", x) : x \in StringTexts}
    \cup {Tok("AbstractLiteral", x) : x \in LiteralTexts}

----------------------------------------------------------------------------
(* Option, WithPos, ParseResult *)

None == [tag |-> "None"]
Some(v) == [tag |-> "Some", val |-> v]
is_some(o) == o.tag = "Some"

WithPos(item, pos) == [item |-> item, pos |-> pos]

\* Ok / Err of a rule that takes the stream only
Ok(v, s) == [ok |-> TRUE, val |-> v, stream |-> s]
Err(e, s) == [ok |-> FALSE, err |-> e, stream |-> s]

\* Ok / Err of a rule that takes the stream and the sink
OkM(v, s, m) == [ok |-> TRUE, val |-> v, stream |-> s, messages |-> m]
ErrM(e, s, m) == [ok |-> FALSE, err |-> e, stream |-> s, messages |-> m]

\* the `?` operator: an Err is returned as it is, an Ok goes on into `then`
Try(r, then(_)) == IF r.ok THEN then(r) ELSE r

\* the `?` operator on a stream-only result in a rule that also holds the sink
TryM(r, m, then(_)) == IF r.ok THEN then(r) ELSE ErrM(r.err, r.stream, m)

\* message::error(token, msg)
error(token, msg) == [msg |-> msg, pos |-> token.pos, expected |-> {}]

\* the error of try_token_kind! / match_token_kind! when no arm matches
kinds_error(token, kinds) == [msg |-> "Expected", pos |-> token.pos, expected |-> kinds]

\* the error of the stream at the end of input
eof_error(s) == [msg |-> "Unexpected EOF", pos |-> Len(s.toks) + 1, expected |-> {}]

----------------------------------------------------------------------------
(* TokenStream *)

AtEnd(s) == s.pos >= Len(s.toks)

\* the token under the cursor, with its position
NextToken(s) ==
    [kind |-> s.toks[s.pos + 1].kind, text |-> s.toks[s.pos + 1].text, pos |-> s.pos + 1]

Advance(s) == [s EXCEPT !.pos = s.pos + 1]

\* peek_kind() -> Option<Kind>
peek_kind(s) == IF AtEnd(s) THEN None ELSE Some(NextToken(s).kind)

\* peek_expect() -> Result<Token>: lookahead, fails at the end of input
peek_expect(s) == IF AtEnd(s) THEN Err(eof_error(s), s) ELSE Ok(NextToken(s), s)

\* expect() -> Result<Token>: consumes the next token, fails at the end of input
expect(s) == IF AtEnd(s) THEN Err(eof_error(s), s) ELSE Ok(NextToken(s), Advance(s))

\* expect_kind(k) -> Result<Token>: consumes the next token, fails if its kind # k
expect_kind(s, kind) ==
    IF AtEnd(s) THEN Err(eof_error(s), s)
    ELSE IF NextToken(s).kind = kind THEN Ok(NextToken(s), Advance(s))
    ELSE Err(kinds_error(NextToken(s), {kind}), Advance(s))

\* expect_ident() -> Result<WithPos<Symbol>>
expect_ident(s) ==
    IF AtEnd(s) THEN Err(eof_error(s), s)
    ELSE IF NextToken(s).kind = "Identifier"
         THEN Ok(WithPos(NextToken(s).text, s.pos + 1), Advance(s))
    ELSE Err(kinds_error(NextToken(s), {"Identifier"}), Advance(s))

\* move_after(token): the cursor goes just past an already peeked token
move_after(s, token) == [s EXCEPT !.pos = token.pos]

\* pop_if_kind(k) -> Option<Token>: consumes the next token only if its kind is k
pop_if_kind(s, kind) ==
    IF ~AtEnd(s) /\ NextToken(s).kind = kind
    THEN Ok(Some(NextToken(s)), Advance(s))
    ELSE Ok(None, s)

----------------------------------------------------------------------------
(* Syntax tree nodes (ast) *)

Designator_Identifier(sym) == [tag |-> "Identifier", text |-> sym]
Designator_OperatorSymbol(str) == [tag |-> "OperatorSymbol", text |-> str]

\* WithPos::map_into
map_into(w, f(_)) == WithPos(f(w.item), w.pos)

Signature_Function(type_marks, return_mark) ==
    [tag |-> "Function", type_marks |-> type_marks, return_mark |-> return_mark]
Signature_Procedure(type_marks) ==
    [tag |-> "Procedure", type_marks |-> type_marks]

EntityTag(designator, signature) == [designator |-> designator, signature |-> signature]
EntityName_Name(entity_tag) == [tag |-> "Name", entity_tag |-> entity_tag]
EntityName_Others == [tag |-> "Others"]
EntityName_All == [tag |-> "All"]

Attribute_Declaration(ident, type_mark) ==
    [tag |-> "Declaration", ident |-> ident, type_mark |-> type_mark]
Attribute_Specification(ident, entity_name, entity_class, expr) ==
    [tag |-> "Specification", ident |-> ident, entity_name |-> entity_name,
     entity_class |-> entity_class, expr |-> expr]

----------------------------------------------------------------------------
(* Delegated grammars the rules call: names and expressions *)

\* the `. identifier` suffixes of a selected name
RECURSIVE selected_name_suffix(_, _)
selected_name_suffix(s, name) ==
    IF peek_kind(s) = Some("Dot")
    THEN Try(expect_ident(Advance(s)), LAMBDA ident :
         selected_name_suffix(ident.stream, Append(name, ident.val)))
    ELSE Ok(name, s)

\* names::parse_selected_name: identifier { . identifier }
parse_selected_name(s) ==
    Try(expect_ident(s), LAMBDA ident :
    selected_name_suffix(ident.stream, <<ident.val>>))

\* expression::parse_expression: here a single literal or name
parse_expression(s) ==
    Try(expect(s), LAMBDA token :
    IF token.val.kind \in {"AbstractLiteral", "Identifier"}
    THEN Ok(WithPos(token.val.text, token.val.pos), token.stream)
    ELSE Err(kinds_error(token.val, {"AbstractLiteral", "Identifier"}), token.stream))

----------------------------------------------------------------------------
(* subprogram.rs: parse_signature *)

\* how one pass of a `loop` ends when it does not return an error:
\* it goes round again or breaks, with the locals l as the pass left them
Continue(l) == [ok |-> TRUE, ctl |-> "continue", l |-> l]
Break(l) == [ok |-> TRUE, ctl |-> "break", l |-> l]

\* if return_mark.is_some() { return Err(error(token, "Duplicate return in signature")) }
duplicate_return(token) == error(token, "Duplicate return in signature")

\* signature_separator without the duplicate check in its Return arm
signature_separator_unchecked(l, type_marks, sep_token) ==
    CASE sep_token.val.kind = "Comma" ->
            Continue([stream |-> sep_token.stream, type_marks |-> type_marks,
                      return_mark |-> l.return_mark])
      [] sep_token.val.kind = "RightSquare" ->
            Break([stream |-> sep_token.stream, type_marks |-> type_marks,
                   return_mark |-> l.return_mark])
      [] sep_token.val.kind = "Return" ->
            Try(parse_selected_name(sep_token.stream), LAMBDA return_mark :
            Continue([stream |-> return_mark.stream, type_marks |-> type_marks,
                      return_mark |-> Some(return_mark.val)]))
      [] OTHER ->
            Err(kinds_error(sep_token.val, {"Comma", "RightSquare", "Return"}),
                sep_token.stream)

\* the arms of try_token_kind!(sep_token, ...) after a type mark
signature_separator(l, type_marks, sep_token) ==
    CASE sep_token.val.kind = "Comma" ->
            Continue([stream |-> sep_token.stream, type_marks |-> type_marks,
                      return_mark |-> l.return_mark])
      [] sep_token.val.kind = "RightSquare" ->
            Break([stream |-> sep_token.stream, type_marks |-> type_marks,
                   return_mark |-> l.return_mark])
      [] sep_token.val.kind = "Return" ->
            IF is_some(l.return_mark)
            THEN Err(duplicate_return(sep_token.val), sep_token.stream)
            ELSE Try(parse_selected_name(sep_token.stream), LAMBDA return_mark :
                 Continue([stream |-> return_mark.stream, type_marks |-> type_marks,
                           return_mark |-> Some(return_mark.val)]))
      [] OTHER ->
            Err(kinds_error(sep_token.val, {"Comma", "RightSquare", "Return"}),
                sep_token.stream)

\* signature_loop_body whose Return arm notes the return and leaves the token
signature_loop_body_return_left(l) ==
    Try(peek_expect(l.stream), LAMBDA token :
    CASE token.val.kind = "Identifier" ->
            Try(parse_selected_name(l.stream), LAMBDA type_mark :
            Try(expect(type_mark.stream), LAMBDA sep_token :
            signature_separator(l, Append(l.type_marks, type_mark.val), sep_token)))
      [] token.val.kind = "Return" ->
            IF is_some(l.return_mark)
            THEN Err(duplicate_return(token.val), l.stream)
            ELSE Continue([stream |-> l.stream, type_marks |-> l.type_marks,
                           return_mark |-> Some(<<>>)])
      [] token.val.kind = "RightSquare" ->
            Break([l EXCEPT !.stream = move_after(l.stream, token.val)])
      [] OTHER ->
            Err(kinds_error(token.val, {"Identifier", "Return", "RightSquare"}), l.stream))

\* one pass of the loop of parse_signature over its locals
\* l = [stream, type_marks, return_mark]
signature_loop_body(l) ==
    Try(peek_expect(l.stream), LAMBDA token :
    CASE token.val.kind = "Identifier" ->
            Try(parse_selected_name(l.stream), LAMBDA type_mark :
            Try(expect(type_mark.stream), LAMBDA sep_token :
            signature_separator(l, Append(l.type_marks, type_mark.val), sep_token)))
      [] token.val.kind = "Return" ->
            IF is_some(l.return_mark)
            THEN Err(duplicate_return(token.val), l.stream)
            ELSE Try(parse_selected_name(move_after(l.stream, token.val)),
                     LAMBDA return_mark :
                 Continue([stream |-> return_mark.stream, type_marks |-> l.type_marks,
                           return_mark |-> Some(return_mark.val)]))
      [] token.val.kind = "RightSquare" ->
            Break([l EXCEPT !.stream = move_after(l.stream, token.val)])
      [] OTHER ->
            Err(kinds_error(token.val, {"Identifier", "Return", "RightSquare"}), l.stream))

\* loop { ... } of parse_signature: passes until one breaks or returns an error
RECURSIVE signature_loop(_)
signature_loop(pass) ==
    IF pass.ok /\ pass.ctl = "continue"
    THEN signature_loop(signature_loop_body(pass.l))
    ELSE pass

\* signature_of that always gives the Procedure variant
signature_of_procedure(type_marks, return_mark) == Signature_Procedure(type_marks)

\* Ok(match return_mark { Some(..) => Signature::Function(..), None => Signature::Procedure(..) })
signature_of(type_marks, return_mark) ==
    IF is_some(return_mark)
    THEN Signature_Function(type_marks, return_mark.val)
    ELSE Signature_Procedure(type_marks)

parse_signature(s) ==
    Try(expect_kind(s, "LeftSquare"), LAMBDA left_square :
    Try(signature_loop(Continue([stream |-> left_square.stream, type_marks |-> <<>>,
                                 return_mark |-> None])), LAMBDA end :
    Ok(signature_of(end.l.type_marks, end.l.return_mark), end.l.stream)))

----------------------------------------------------------------------------
(* attributes.rs *)

parse_entity_class(s) ==
    Try(expect(s), LAMBDA token :
    IF token.val.kind \in EntityClassKinds
    THEN Ok(token.val.kind, token.stream)
    ELSE Err(kinds_error(token.val, EntityClassKinds), token.stream))

\* let signature = if stream.peek_kind()? == Some(LeftSquare) { Some(parse_signature(stream)?) }
\*                 else { None }
optional_signature(s) ==
    IF peek_kind(s) = Some("LeftSquare")
    THEN Try(parse_signature(s), LAMBDA signature : Ok(Some(signature.val), signature.stream))
    ELSE Ok(None, s)

\* entity_name_separator that moves the cursor after the colon as after a comma
entity_name_separator_colon_consumed(entity_name_list, sep_token) ==
    CASE sep_token.val.kind = "Comma" ->
            Continue([stream |-> move_after(sep_token.stream, sep_token.val),
                      entity_name_list |-> entity_name_list])
      [] sep_token.val.kind = "Colon" ->
            Break([stream |-> move_after(sep_token.stream, sep_token.val),
                   entity_name_list |-> entity_name_list])
      [] OTHER ->
            Err(kinds_error(sep_token.val, {"Comma", "Colon"}), sep_token.stream)

\* the arms of try_token_kind!(sep_token, ...) after an entity name
entity_name_separator(entity_name_list, sep_token) ==
    CASE sep_token.val.kind = "Comma" ->
            Continue([stream |-> move_after(sep_token.stream, sep_token.val),
                      entity_name_list |-> entity_name_list])
      [] sep_token.val.kind = "Colon" ->
            Break([stream |-> sep_token.stream, entity_name_list |-> entity_name_list])
      [] OTHER ->
            Err(kinds_error(sep_token.val, {"Comma", "Colon"}), sep_token.stream)

\* entity_name_loop_body that takes `others` as the last entity name of the list
entity_name_loop_body_others_last(l) ==
    IF peek_kind(l.stream) = Some("Others")
    THEN Break([stream |-> Advance(l.stream),
                entity_name_list |-> Append(l.entity_name_list, EntityName_Others)])
    ELSE Try(expect_ident(l.stream), LAMBDA ident :
         Try(optional_signature(ident.stream), LAMBDA signature :
         Try(peek_expect(signature.stream), LAMBDA sep_token :
         entity_name_separator(
             Append(l.entity_name_list,
                    EntityName_Name(EntityTag(map_into(ident.val, Designator_Identifier),
                                              signature.val))),
             sep_token))))

\* entity_name_loop_body that ends the list where the stream ends
entity_name_loop_body_end_breaks(l) ==
    Try(expect_ident(l.stream), LAMBDA ident :
    Try(optional_signature(ident.stream), LAMBDA signature :
    IF AtEnd(signature.stream)
    THEN Break([stream |-> signature.stream,
                entity_name_list |->
                    Append(l.entity_name_list,
                           EntityName_Name(EntityTag(
                               map_into(ident.val, Designator_Identifier),
                               signature.val)))])
    ELSE Try(peek_expect(signature.stream), LAMBDA sep_token :
         entity_name_separator(
             Append(l.entity_name_list,
                    EntityName_Name(EntityTag(map_into(ident.val, Designator_Identifier),
                                              signature.val))),
             sep_token))))

\* one pass of the loop of parse_entity_name_list over its locals
\* l = [stream, entity_name_list]
entity_name_loop_body(l) ==
    Try(expect_ident(l.stream), LAMBDA ident :
    Try(optional_signature(ident.stream), LAMBDA signature :
    Try(peek_expect(signature.stream), LAMBDA sep_token :
    entity_name_separator(
        Append(l.entity_name_list,
               EntityName_Name(EntityTag(map_into(ident.val, Designator_Identifier),
                                         signature.val))),
        sep_token))))

\* loop { ... } of parse_entity_name_list
RECURSIVE entity_name_loop(_)
entity_name_loop(pass) ==
    IF pass.ok /\ pass.ctl = "continue"
    THEN entity_name_loop(entity_name_loop_body(pass.l))
    ELSE pass

\* parse_entity_name_list whose arms for `others` and `all` give each other's value
parse_entity_name_list_all_for_others(s) ==
    Try(peek_expect(s), LAMBDA token :
    CASE token.val.kind = "Identifier" ->
            Try(entity_name_loop(Continue([stream |-> s, entity_name_list |-> <<>>])),
                LAMBDA end :
            Ok(end.l.entity_name_list, end.l.stream))
      [] token.val.kind = "Others" ->
            Ok(<<EntityName_All>>, move_after(s, token.val))
      [] token.val.kind = "All" ->
            Ok(<<EntityName_Others>>, move_after(s, token.val))
      [] OTHER ->
            Err(kinds_error(token.val, {"Identifier", "Others", "All"}), s))

parse_entity_name_list(s) ==
    Try(peek_expect(s), LAMBDA token :
    CASE token.val.kind = "Identifier" ->
            Try(entity_name_loop(Continue([stream |-> s, entity_name_list |-> <<>>])),
                LAMBDA end :
            Ok(end.l.entity_name_list, end.l.stream))
      [] token.val.kind = "Others" ->
            Ok(<<EntityName_Others>>, move_after(s, token.val))
      [] token.val.kind = "All" ->
            Ok(<<EntityName_All>>, move_after(s, token.val))
      [] OTHER ->
            Err(kinds_error(token.val, {"Identifier", "Others", "All"}), s))

\* expand with the entity names taken from the back of the list
expand_reversed(ident, entity_names, entity_class, expr) ==
    [i \in 1..Len(entity_names) |->
        Attribute_Specification(ident, entity_names[Len(entity_names) + 1 - i],
                                entity_class, expr)]

\* entity_names.into_iter().map(|entity_name| Attribute::Specification(..)).collect()
expand(ident, entity_names, entity_class, expr) ==
    [i \in 1..Len(entity_names) |->
        Attribute_Specification(ident, entity_names[i], entity_class, expr)]

\* attribute_declaration that leaves the terminating semicolon in the stream
attribute_declaration_no_semicolon(ident, s) ==
    Try(parse_selected_name(s), LAMBDA type_mark :
    Ok(<<Attribute_Declaration(ident, type_mark.val)>>, type_mark.stream))

\* the arm Colon => { ... } of parse_attribute
attribute_declaration(ident, s) ==
    Try(parse_selected_name(s), LAMBDA type_mark :
    Try(expect_kind(type_mark.stream, "SemiColon"), LAMBDA semi :
    Ok(<<Attribute_Declaration(ident, type_mark.val)>>, semi.stream)))

\* the arm Of => { ... } of parse_attribute
attribute_specification(ident, s) ==
    Try(parse_entity_name_list(s), LAMBDA entity_names :
    Try(expect_kind(entity_names.stream, "Colon"), LAMBDA colon :
    Try(parse_entity_class(colon.stream), LAMBDA entity_class :
    Try(expect_kind(entity_class.stream, "Is"), LAMBDA is :
    Try(parse_expression(is.stream), LAMBDA expr :
    Try(expect_kind(expr.stream, "SemiColon"), LAMBDA semi :
    Ok(expand(ident, entity_names.val, entity_class.val, expr.val), semi.stream)))))))

parse_attribute(s) ==
    Try(expect_kind(s, "Attribute"), LAMBDA attribute :
    Try(expect_ident(attribute.stream), LAMBDA ident :
    Try(expect(ident.stream), LAMBDA token :
    CASE token.val.kind = "Colon" -> attribute_declaration(ident.val, token.stream)
      [] token.val.kind = "Of" -> attribute_specification(ident.val, token.stream)
      [] OTHER -> Err(kinds_error(token.val, {"Colon", "Of"}), token.stream))))

----------------------------------------------------------------------------
(* Delegated grammars that report into the sink.  Each takes the stream    *)
(* and the sink: a problem it recovers from (here a stray comma) is pushed *)
(* to the sink and skipped, any other unexpected token is its error.       *)

\* interface_declaration::parse_parameter_interface_list: ( parameter ... )
RECURSIVE parameter_loop(_, _, _)
parameter_loop(s, m, list) ==
    TryM(expect(s), m, LAMBDA token :
    CASE token.val.kind = "RightPar" -> OkM(list, token.stream, m)
      [] token.val.kind = "Identifier" ->
            parameter_loop(token.stream, m,
                           Append(list, WithPos(token.val.text, token.val.pos)))
      [] token.val.kind = "Comma" ->
            parameter_loop(token.stream,
                           Append(m, error(token.val, "Expected parameter")), list)
      [] OTHER ->
            ErrM(kinds_error(token.val, {"Identifier", "RightPar"}), token.stream, m))

parse_parameter_interface_list(s, m) ==
    TryM(expect_kind(s, "LeftPar"), m, LAMBDA left_par :
    parameter_loop(left_par.stream, m, <<>>))

\* declarative_part::parse_declarative_part: declarations up to and with `begin`
RECURSIVE declarative_loop(_, _, _)
declarative_loop(s, m, list) ==
    TryM(expect(s), m, LAMBDA token :
    CASE token.val.kind = "Begin" -> OkM(list, token.stream, m)
      [] token.val.kind = "Variable" ->
            declarative_loop(token.stream, m,
                             Append(list, WithPos("variable", token.val.pos)))
      [] token.val.kind = "Comma" ->
            declarative_loop(token.stream,
                             Append(m, error(token.val, "Expected declaration")), list)
      [] OTHER ->
            ErrM(kinds_error(token.val, {"Variable", "Begin"}), token.stream, m))

parse_declarative_part(s, m, begin_is_end) == declarative_loop(s, m, <<>>)

\* sequential_statement::parse_labeled_sequential_statements: statements up to
\* and with the token that ends them, which is returned with the statements
RECURSIVE statement_loop(_, _, _)
statement_loop(s, m, list) ==
    TryM(expect(s), m, LAMBDA token :
    CASE token.val.kind \in {"End", "Else"} ->
            OkM([statements |-> list, end_token |-> token.val], token.stream, m)
      [] token.val.kind = "Identifier" ->
            statement_loop(token.stream, m,
                           Append(list, WithPos(token.val.text, token.val.pos)))
      [] token.val.kind = "Comma" ->
            statement_loop(token.stream,
                           Append(m, error(token.val, "Expected statement")), list)
      [] OTHER ->
            ErrM(kinds_error(token.val, {"Identifier", "End", "Else"}), token.stream, m))

parse_labeled_sequential_statements(s, m) == statement_loop(s, m, <<>>)

----------------------------------------------------------------------------
(* subprogram.rs: designators, specifications, bodies *)

SubprogramDeclaration_Function(pure, designator, parameter_list, return_type) ==
    [tag |-> "Function", pure |-> pure, designator |-> designator,
     parameter_list |-> parameter_list, return_type |-> return_type]
SubprogramDeclaration_Procedure(designator, parameter_list) ==
    [tag |-> "Procedure", designator |-> designator, parameter_list |-> parameter_list]

SubprogramBody(spec, declarations, statements) ==
    [specification |-> spec, declarations |-> declarations, statements |-> statements]

Declaration_SubprogramBody(body) == [tag |-> "SubprogramBody", body |-> body]
Declaration_SubprogramDeclaration(spec) ==
    [tag |-> "SubprogramDeclaration", specification |-> spec]

\* parse_designator that gives the Identifier variant for a string literal too
parse_designator_identifier_only(s) ==
    Try(expect(s), LAMBDA token :
    CASE token.val.kind \in {"Identifier", "StringLiteral"} ->
            Ok(map_into(WithPos(token.val.text, token.val.pos), Designator_Identifier),
               token.stream)
      [] OTHER ->
            Err(kinds_error(token.val, {"Identifier", "StringLiteral"}), token.stream))

parse_designator(s) ==
    Try(expect(s), LAMBDA token :
    CASE token.val.kind = "Identifier" ->
            Ok(map_into(WithPos(token.val.text, token.val.pos), Designator_Identifier),
               token.stream)
      [] token.val.kind = "StringLiteral" ->
            Ok(WithPos(Designator_OperatorSymbol(token.val.text), token.val.pos),
               token.stream)
      [] OTHER ->
            Err(kinds_error(token.val, {"Identifier", "StringLiteral"}), token.stream))

\* subprogram_kind whose Impure arm gives the purity of the Function arm
subprogram_kind_impure_as_pure(token) ==
    CASE token.val.kind = "Procedure" ->
            Ok([is_function |-> FALSE, is_pure |-> FALSE], token.stream)
      [] token.val.kind = "Function" ->
            Ok([is_function |-> TRUE, is_pure |-> TRUE], token.stream)
      [] token.val.kind = "Impure" ->
            Try(expect_kind(token.stream, "Function"), LAMBDA function :
            Ok([is_function |-> TRUE, is_pure |-> TRUE], function.stream))
      [] OTHER ->
            Err(kinds_error(token.val, {"Procedure", "Function", "Impure"}), token.stream)

\* let (is_function, is_pure) = try_token_kind!(token, ...)
subprogram_kind(token) ==
    CASE token.val.kind = "Procedure" ->
            Ok([is_function |-> FALSE, is_pure |-> FALSE], token.stream)
      [] token.val.kind = "Function" ->
            Ok([is_function |-> TRUE, is_pure |-> TRUE], token.stream)
      [] token.val.kind = "Impure" ->
            Try(expect_kind(token.stream, "Function"), LAMBDA function :
            Ok([is_function |-> TRUE, is_pure |-> FALSE], function.stream))
      [] OTHER ->
            Err(kinds_error(token.val, {"Procedure", "Function", "Impure"}), token.stream)

\* optional_parameter_list that collects the diagnostics of the parameter list
\* in a sink of its own and returns the sink it was given
optional_parameter_list_own_sink(s, m) ==
    IF peek_kind(s) = Some("LeftPar")
    THEN Try(parse_parameter_interface_list(s, <<>>), LAMBDA parameter_list :
         OkM(parameter_list.val, parameter_list.stream, m))
    ELSE OkM(<<>>, s, m)

\* let parameter_list = if stream.peek_kind()? == Some(LeftPar) { parse_..(stream, messages)? }
\*                      else { Vec::new() }
optional_parameter_list(s, m) ==
    IF peek_kind(s) = Some("LeftPar")
    THEN parse_parameter_interface_list(s, m)
    ELSE OkM(<<>>, s, m)

\* subprogram_specification for which the return clause of a function is optional
subprogram_specification_return_optional(kind, designator, parameter_list) ==
    IF kind.is_function /\ peek_kind(parameter_list.stream) = Some("Return")
    THEN TryM(expect_kind(parameter_list.stream, "Return"), parameter_list.messages,
              LAMBDA return :
         TryM(parse_selected_name(return.stream), parameter_list.messages,
              LAMBDA return_type :
         OkM(SubprogramDeclaration_Function(kind.is_pure, designator,
                                            parameter_list.val, return_type.val),
             return_type.stream, parameter_list.messages)))
    ELSE IF kind.is_function
    THEN OkM(SubprogramDeclaration_Function(kind.is_pure, designator,
                                            parameter_list.val, <<>>),
             parameter_list.stream, parameter_list.messages)
    ELSE OkM(SubprogramDeclaration_Procedure(designator, parameter_list.val),
             parameter_list.stream, parameter_list.messages)

\* if is_function { ... } else { ... } at the end of parse_subprogram_declaration_no_semi
subprogram_specification(kind, designator, parameter_list) ==
    IF kind.is_function
    THEN TryM(expect_kind(parameter_list.stream, "Return"), parameter_list.messages,
              LAMBDA return :
         TryM(parse_selected_name(return.stream), parameter_list.messages,
              LAMBDA return_type :
         OkM(SubprogramDeclaration_Function(kind.is_pure, designator,
                                            parameter_list.val, return_type.val),
             return_type.stream, parameter_list.messages)))
    ELSE OkM(SubprogramDeclaration_Procedure(designator, parameter_list.val),
             parameter_list.stream, parameter_list.messages)

parse_subprogram_declaration_no_semi(s, m) ==
    TryM(expect(s), m, LAMBDA token :
    TryM(subprogram_kind(token), m, LAMBDA kind :
    TryM(parse_designator(kind.stream), m, LAMBDA designator :
    Try(optional_parameter_list(designator.stream, m), LAMBDA parameter_list :
    subprogram_specification(kind.val, designator.val, parameter_list)))))

\* stream.expect_kind(SemiColon)?; res
semicolon_then(res) ==
    TryM(expect_kind(res.stream, "SemiColon"), res.messages, LAMBDA semi :
    [res EXCEPT !.stream = semi.stream])

parse_subprogram_declaration(s, m) ==
    semicolon_then(parse_subprogram_declaration_no_semi(s, m))

\* end_kind_of with the keywords of the two variants exchanged
end_kind_of_exchanged(spec) == IF spec.tag = "Procedure" THEN "Function" ELSE "Procedure"

\* let end_kind = match specification { Procedure(..) => Procedure, Function(..) => Function }
end_kind_of(spec) == IF spec.tag = "Procedure" THEN "Procedure" ELSE "Function"

\* subprogram_body_end that looks for the name only after the keyword
subprogram_body_end_nested(s, end_kind) ==
    Try(pop_if_kind(s, end_kind), LAMBDA keyword :
    IF is_some(keyword.val)
    THEN Try(pop_if_kind(keyword.stream, "Identifier"), LAMBDA ident :
         Try(pop_if_kind(ident.stream, "StringLiteral"), LAMBDA string :
         expect_kind(string.stream, "SemiColon")))
    ELSE expect_kind(keyword.stream, "SemiColon"))

\* the arm End => { ... } of try_token_kind!(end_token, ...), which ends the body
subprogram_body_end(s, end_kind) ==
    Try(pop_if_kind(s, end_kind), LAMBDA keyword :
    Try(pop_if_kind(keyword.stream, "Identifier"), LAMBDA ident :
    Try(pop_if_kind(ident.stream, "StringLiteral"), LAMBDA string :
    expect_kind(string.stream, "SemiColon"))))

parse_subprogram_body(s, spec, m) ==
    Try(parse_declarative_part(s, m, TRUE), LAMBDA declarations :
    Try(parse_labeled_sequential_statements(declarations.stream, declarations.messages),
        LAMBDA statements :
    IF statements.val.end_token.kind = "End"
    THEN TryM(subprogram_body_end(statements.stream, end_kind_of(spec)),
              statements.messages, LAMBDA semi :
         OkM(SubprogramBody(spec, declarations.val, statements.val.statements),
             semi.stream, statements.messages))
    ELSE ErrM(kinds_error(statements.val.end_token, {"End"}),
              statements.stream, statements.messages)))

\* subprogram_dispatch that takes every token but `is` for the semicolon
subprogram_dispatch_lenient(spec, token) ==
    CASE token.val.kind = "Is" ->
            Try(parse_subprogram_body(token.stream, spec.val, spec.messages), LAMBDA body :
            OkM(Declaration_SubprogramBody(body.val), body.stream, body.messages))
      [] OTHER ->
            OkM(Declaration_SubprogramDeclaration(spec.val), token.stream, spec.messages)

\* the arms of match_token_kind!(stream.expect()?, ...) of parse_subprogram
subprogram_dispatch(spec, token) ==
    CASE token.val.kind = "Is" ->
            Try(parse_subprogram_body(token.stream, spec.val, spec.messages), LAMBDA body :
            OkM(Declaration_SubprogramBody(body.val), body.stream, body.messages))
      [] token.val.kind = "SemiColon" ->
            OkM(Declaration_SubprogramDeclaration(spec.val), token.stream, spec.messages)
      [] OTHER ->
            ErrM(kinds_error(token.val, {"Is", "SemiColon"}), token.stream, spec.messages)

parse_subprogram(s, m) ==
    Try(parse_subprogram_declaration_no_semi(s, m), LAMBDA spec :
    TryM(expect(spec.stream), spec.messages, LAMBDA token :
    subprogram_dispatch(spec, token)))

----------------------------------------------------------------------------
(* The state machine: a rule is called on a token stream; the stream is    *)
(* then rebuilt one token longer, as long as the rule read to its end.     *)

AttributeRules == {"parse_attribute"}
EntityNameRules == {"parse_entity_class", "parse_entity_name_list"}
SignatureRules == {"parse_signature", "parse_designator"}
SubprogramRules ==
    {"parse_subprogram_declaration_no_semi", "parse_subprogram_declaration",
     "parse_subprogram_body", "parse_subprogram"}
Rules == AttributeRules \cup EntityNameRules \cup SignatureRules \cup SubprogramRules

Idle == [idle |-> TRUE]
Returned == result # Idle

\* a diagnostic an earlier rule left in the sink
Earlier == [msg |-> "earlier", pos |-> 0, expected |-> {}]
Entries == {<<>>, <<Earlier>>}

\* the specifications parse_subprogram_body is given
ProcedureSpec ==
    SubprogramDeclaration_Procedure(WithPos(Designator_Identifier("a"), 0), <<>>)
FunctionSpec ==
    SubprogramDeclaration_Function(TRUE, WithPos(Designator_Identifier("a"), 0), <<>>,
                                   <<WithPos("b", 0)>>)

InitOf(rules, longest) ==
    /\ rule \in rules
    /\ limit = longest
    /\ stream = [toks |-> <<>>, pos |-> 0]
    /\ entry \in (IF rule \in SubprogramRules THEN Entries ELSE {<<>>})
    /\ messages = entry
    /\ specification \in (IF rule = "parse_subprogram_body"
                          THEN {Some(ProcedureSpec), Some(FunctionSpec)} ELSE {None})
    /\ result = Idle

\* the rule stopped because the stream ended, or read all of it
ReadToEnd ==
    \/ ~result.ok /\ result.err.msg = "Unexpected EOF"
    \/ result.ok /\ stream.pos = Len(stream.toks)

\* the tokenizer delivers the stream again, one token longer
Tokenize(t) ==
    /\ Returned
    /\ ReadToEnd
    /\ Len(stream.toks) < limit
    /\ stream' = [toks |-> Append(stream.toks, t), pos |-> 0]
    /\ messages' = entry
    /\ result' = Idle
    /\ UNCHANGED <<rule, specification, entry, limit>>

\* a rule returns: the caller holds its result, the stream and the sink
Returns(r, m) ==
    /\ result' = IF r.ok THEN [ok |-> TRUE, val |-> r.val] ELSE [ok |-> FALSE, err |-> r.err]
    /\ stream' = r.stream
    /\ messages' = m
    /\ UNCHANGED <<rule, specification, entry, limit>>

Calls(name) == rule = name /\ ~Returned

CallParseEntityClass ==
    /\ Calls("parse_entity_class")
    /\ Returns(parse_entity_class(stream), messages)

CallParseEntityNameList ==
    /\ Calls("parse_entity_name_list")
    /\ Returns(parse_entity_name_list(stream), messages)

CallParseAttribute ==
    /\ Calls("parse_attribute")
    /\ Returns(parse_attribute(stream), messages)

CallParseSignature ==
    /\ Calls("parse_signature")
    /\ Returns(parse_signature(stream), messages)

CallParseDesignator ==
    /\ Calls("parse_designator")
    /\ Returns(parse_designator(stream), messages)

CallParseSubprogramDeclarationNoSemi ==
    /\ Calls("parse_subprogram_declaration_no_semi")
    /\ LET r == parse_subprogram_declaration_no_semi(stream, messages) IN
       Returns(r, r.messages)

CallParseSubprogramDeclaration ==
    /\ Calls("parse_subprogram_declaration")
    /\ LET r == parse_subprogram_declaration(stream, messages) IN
       Returns(r, r.messages)

CallParseSubprogramBody ==
    /\ Calls("parse_subprogram_body")
    /\ LET r == parse_subprogram_body(stream, specification.val, messages) IN
       Returns(r, r.messages)

CallParseSubprogram ==
    /\ Calls("parse_subprogram")
    /\ LET r == parse_subprogram(stream, messages) IN
       Returns(r, r.messages)

\* attributes.rs: attribute declarations and specifications
InitAttributes == InitOf(AttributeRules, MaxAttributeLen)
NextAttributes ==
    \/ \E t \in Tokens : Tokenize(t)
    \/ CallParseAttribute
SpecAttributes == InitAttributes /\ [][NextAttributes]_vars

\* attributes.rs: entity name lists and entity classes
InitEntityNames == InitOf(EntityNameRules, MaxEntityNameLen)
NextEntityNames ==
    \/ \E t \in Tokens : Tokenize(t)
    \/ CallParseEntityClass
    \/ CallParseEntityNameList
SpecEntityNames == InitEntityNames /\ [][NextEntityNames]_vars

\* subprogram.rs: signatures and designators
InitSignature == InitOf(SignatureRules, MaxSignatureLen)
NextSignature ==
    \/ \E t \in Tokens : Tokenize(t)
    \/ CallParseSignature
    \/ CallParseDesignator
SpecSignature == InitSignature /\ [][NextSignature]_vars

\* subprogram.rs: specifications and bodies
InitSubprogram == InitOf(SubprogramRules, MaxSubprogramLen)
NextSubprogram ==
    \/ \E t \in Tokens : Tokenize(t)
    \/ CallParseSubprogramDeclarationNoSemi
    \/ CallParseSubprogramDeclaration
    \/ CallParseSubprogramBody
    \/ CallParseSubprogram
SpecSubprogram == InitSubprogram /\ [][NextSubprogram]_vars

\* every rule of both files
Init == InitOf(Rules, MaxLen)
Next ==
    \/ \E t \in Tokens : Tokenize(t)
    \/ CallParseEntityClass
    \/ CallParseEntityNameList
    \/ CallParseAttribute
    \/ CallParseSignature
    \/ CallParseDesignator
    \/ CallParseSubprogramDeclarationNoSemi
    \/ CallParseSubprogramDeclaration
    \/ CallParseSubprogramBody
    \/ CallParseSubprogram
Spec == Init /\ [][Next]_vars


----------------------------------------------------------------------------
(* Reading the token stream a rule was called on *)

toks == stream.toks
KindAt(i) == IF i \in 1..Len(toks) THEN toks[i].kind ELSE "EOF"
KindsFrom(i) == [j \in 1..(Len(toks) + 1 - i) |-> toks[j + i - 1].kind]
IdentAt(i) == WithPos(toks[i].text, i)
ExpressionKinds == {"AbstractLiteral", "Identifier"}

\* the stream as the rule found it
AtEntry == [toks |-> toks, pos |-> 0]

\* tokens i, i+2, .., e are identifiers and the tokens between them are `sep`
Alternates(i, e, sep) ==
    /\ i <= e /\ e <= Len(toks) /\ (e - i) % 2 = 0
    /\ \A j \in i..e : KindAt(j) = IF (j - i) % 2 = 0 THEN "Identifier" ELSE sep

\* the selected name written in tokens i..e
NameAt(i, e) == [j \in 1..((e - i) \div 2 + 1) |-> IdentAt(i + 2 * (j - 1))]

----------------------------------------------------------------------------
(* attributes.rs: parse_attribute *)

\* `attribute X of <entity names> : C is E ;` with the colon as token k
IsSpecification(k) ==
    /\ KindAt(1) = "Attribute" /\ KindAt(2) = "Identifier" /\ KindAt(3) = "Of"
    /\ k > 4 /\ Len(toks) = k + 4
    /\ KindAt(k) = "Colon" /\ KindAt(k + 1) \in EntityClassKinds /\ KindAt(k + 2) = "Is"
    /\ KindAt(k + 3) \in ExpressionKinds /\ KindAt(k + 4) = "SemiColon"

\* C1: on `attribute X of L1, ..., Ln : C is E ;` parse_attribute returns n
\* Specification nodes in source order: the i-th carries the i-th entity name of
\* the list, and all carry the identifier X, the class C and the expression E.
\* For a list of plain identifiers the i-th entity name is the i-th identifier
\* written, at its own position and without a signature.
C1_SpecificationPerEntityName ==
    (Returned /\ rule = "parse_attribute") =>
    \A k \in 1..Len(toks) :
        LET names == parse_entity_name_list([toks |-> toks, pos |-> 3]) IN
        (IsSpecification(k) /\ names.ok /\ names.stream.pos = k - 1) =>
            /\ result.ok
            /\ stream.pos = Len(toks)
            /\ Len(result.val) = Len(names.val)
            /\ \A i \in 1..Len(result.val) :
                  result.val[i] =
                      Attribute_Specification(IdentAt(2), names.val[i],
                                              KindAt(k + 1), IdentAt(k + 3))
            /\ Alternates(4, k - 1, "Comma") =>
                  /\ Len(result.val) = (k - 3) \div 2
                  /\ \A i \in 1..Len(result.val) :
                        result.val[i].entity_name =
                            EntityName_Name(EntityTag(
                                WithPos(Designator_Identifier(toks[2 * i + 2].text),
                                        2 * i + 2),
                                None))

\* a list of two names, a then b, has been expanded
C1_Witness ==
    /\ Returned /\ rule = "parse_attribute" /\ result.ok
    /\ IsSpecification(7) /\ Alternates(4, 6, "Comma")
    /\ toks[4].text = "a" /\ toks[6].text = "b"
    /\ Len(result.val) = 2

\* C10: on `attribute X : T ;` parse_attribute returns one node, the
\* Declaration of X with the type mark T; the token after the identifier alone
\* decides the form (a colon gives a Declaration and never a Specification,
\* `of` gives Specifications only), and any other token there is a syntax error.
C10_DeclarationForm ==
    (Returned /\ rule = "parse_attribute"
        /\ KindAt(1) = "Attribute" /\ KindAt(2) = "Identifier" /\ Len(toks) >= 3) =>
    /\ (KindAt(3) = "Colon" /\ Alternates(4, Len(toks) - 1, "Dot")
            /\ KindAt(Len(toks)) = "SemiColon") =>
          /\ result.ok
          /\ result.val = <<Attribute_Declaration(IdentAt(2), NameAt(4, Len(toks) - 1))>>
          /\ stream.pos = Len(toks)
    /\ (KindAt(3) = "Colon" /\ result.ok) =>
          Len(result.val) = 1 /\ result.val[1].tag = "Declaration"
    /\ (KindAt(3) = "Of" /\ result.ok) =>
          \A i \in 1..Len(result.val) : result.val[i].tag = "Specification"
    /\ KindAt(3) \notin {"Colon", "Of"} =>
          /\ ~result.ok
          /\ result.err = kinds_error([pos |-> 3], {"Colon", "Of"})

\* a declaration with the type mark a.b has been parsed
C10_Witness ==
    /\ Returned /\ rule = "parse_attribute" /\ result.ok
    /\ KindAt(3) = "Colon" /\ Len(toks) = 7 /\ KindAt(5) = "Dot"
    /\ result.val[1].tag = "Declaration"


----------------------------------------------------------------------------
(* subprogram.rs: parse_signature *)

\* the last token of the selected name that starts at token i, 0 if none does
RECURSIVE NameEnd(_)
NameEnd(i) ==
    IF KindAt(i) # "Identifier" THEN 0
    ELSE IF KindAt(i + 1) = "Dot" /\ KindAt(i + 2) = "Identifier" THEN NameEnd(i + 2)
    ELSE i

\* the first token after the type marks `T ,  T , ...` that start at token i
RECURSIVE MarksEnd(_)
MarksEnd(i) ==
    IF NameEnd(i) = 0 THEN i
    ELSE IF KindAt(NameEnd(i) + 1) = "Comma" THEN MarksEnd(NameEnd(i) + 2)
    ELSE NameEnd(i) + 1

\* the type marks written from token i on, in source order
RECURSIVE MarksFrom(_)
MarksFrom(i) ==
    IF NameEnd(i) = 0 THEN <<>>
    ELSE <<NameAt(i, NameEnd(i))>> \o
         (IF KindAt(NameEnd(i) + 1) = "Comma" THEN MarksFrom(NameEnd(i) + 2) ELSE <<>>)

\* `[ <type marks> return R <type marks> return` with the second return as token j
TwoReturns(j) ==
    /\ KindAt(1) = "LeftSquare"
    /\ KindAt(MarksEnd(2)) = "Return"
    /\ NameEnd(MarksEnd(2) + 1) # 0
    /\ MarksEnd(NameEnd(MarksEnd(2) + 1) + 1) = j
    /\ KindAt(j) = "Return"

\* C3: a signature with two return clauses fails with "Duplicate return in
\* signature" at the position of the second `return` token, with or without
\* type marks before it, whether that token is met at the head of the loop or
\* as the separator after a type mark.
C3_DuplicateReturnAtSecond ==
    (Returned /\ rule = "parse_signature") =>
    \A j \in 1..Len(toks) :
        TwoReturns(j) =>
            /\ ~result.ok
            /\ result.err = [msg |-> "Duplicate return in signature", pos |-> j,
                             expected |-> {}]

\* the second return was met as the separator after a type mark
C3_Witness ==
    /\ Returned /\ rule = "parse_signature"
    /\ TwoReturns(Len(toks)) /\ KindAt(Len(toks) - 1) = "Identifier"
    /\ KindAt(2) = "Identifier"
    /\ ~result.ok /\ result.err.msg = "Duplicate return in signature"

\* `[ T1 , ... , Tk` with the token after the type marks as token i
\* (k >= 0, no comma after the last type mark)
TypeMarksUpTo(i) ==
    /\ KindAt(1) = "LeftSquare"
    /\ MarksEnd(2) = i
    /\ i = 2 \/ KindAt(i - 1) = "Identifier"

\* C4: `[T1, ..., Tk return R]` gives Function([T1..Tk], R) and `[T1, ..., Tk]`
\* gives Procedure([T1..Tk]), the type marks in source order; a signature that
\* parses is the Function variant exactly when a `return` is among the tokens
\* it was parsed from.
C4_SignatureVariant ==
    (Returned /\ rule = "parse_signature") =>
    /\ \A i \in 2..Len(toks) :
          /\ (TypeMarksUpTo(i) /\ KindAt(i) = "RightSquare" /\ Len(toks) = i) =>
                /\ result.ok
                /\ result.val = Signature_Procedure(MarksFrom(2))
                /\ stream.pos = Len(toks)
          /\ (TypeMarksUpTo(i) /\ KindAt(i) = "Return" /\ NameEnd(i + 1) # 0
                /\ KindAt(NameEnd(i + 1) + 1) = "RightSquare"
                /\ Len(toks) = NameEnd(i + 1) + 1) =>
                /\ result.ok
                /\ result.val = Signature_Function(MarksFrom(2), NameAt(i + 1, NameEnd(i + 1)))
                /\ stream.pos = Len(toks)
    /\ result.ok =>
          (result.val.tag = "Function" <=> \E i \in 1..stream.pos : KindAt(i) = "Return")

\* a function signature with two type marks has been parsed
C4_Witness ==
    /\ Returned /\ rule = "parse_signature" /\ result.ok
    /\ result.val.tag = "Function" /\ Len(result.val.type_marks) = 2
    /\ result.val.type_marks[1][1].item # result.val.type_marks[2][1].item


----------------------------------------------------------------------------
(* subprogram.rs: specifications and bodies *)

\* the designator written as token i
DesignatorAt(i) ==
    WithPos(IF KindAt(i) = "Identifier"
            THEN Designator_Identifier(toks[i].text)
            ELSE Designator_OperatorSymbol(toks[i].text), i)
DesignatorKinds == {"Identifier", "StringLiteral"}

\* what parse_subprogram_declaration_no_semi returns on the stream as it was found
SpecificationAtEntry == parse_subprogram_declaration_no_semi(AtEntry, entry)

\* C2: when the nested parse_subprogram_declaration_no_semi fails, the rule
\* that called it returns that first error unchanged; parse_subprogram_declaration
\* never returns another error (such as the one for a missing semicolon).
C2_FirstErrorReturned ==
    (Returned /\ rule \in {"parse_subprogram_declaration", "parse_subprogram"}
        /\ ~SpecificationAtEntry.ok) =>
    /\ ~result.ok
    /\ result.err = SpecificationAtEntry.err

\* C5: after a specification has been parsed, parse_subprogram consumes one
\* token and branches on it: `is` gives the SubprogramBody that
\* parse_subprogram_body builds from that specification, `;` gives the
\* SubprogramDeclaration of the bare specification, any other token is a
\* syntax error; nothing else is returned.
C5_SubprogramDispatch ==
    (Returned /\ rule = "parse_subprogram" /\ SpecificationAtEntry.ok) =>
    LET spec == SpecificationAtEntry
        next == spec.stream.pos + 1
        body == parse_subprogram_body([toks |-> toks, pos |-> next], spec.val,
                                      spec.messages)
    IN
    /\ KindAt(next) = "SemiColon" =>
          /\ result.ok
          /\ result.val = Declaration_SubprogramDeclaration(spec.val)
          /\ stream.pos = next
    /\ KindAt(next) = "Is" =>
          /\ result.ok = body.ok
          /\ result.ok => result.val = Declaration_SubprogramBody(body.val)
          /\ ~result.ok => result.err = body.err
          /\ stream.pos = body.stream.pos
    /\ KindAt(next) \notin {"SemiColon", "Is"} =>
          /\ ~result.ok
          /\ next <= Len(toks) =>
                /\ result.err = kinds_error([pos |-> next], {"Is", "SemiColon"})
                /\ stream.pos = next
    /\ result.ok => result.val.tag \in {"SubprogramBody", "SubprogramDeclaration"}
    /\ (KindsFrom(1) = <<"Procedure", "Identifier", "SemiColon">>) =>
          /\ result.ok
          /\ result.val = Declaration_SubprogramDeclaration(
                              SubprogramDeclaration_Procedure(DesignatorAt(2), <<>>))

\* a body has been parsed after `is`
C5_Witness ==
    /\ Returned /\ rule = "parse_subprogram" /\ result.ok
    /\ result.val.tag = "SubprogramBody"
    /\ KindAt(3) = "Is"

\* the echoes chosen by S from: 1 the terminal keyword, 2 a name, 3 a string
Echoes(keyword, S) ==
    (IF 1 \in S THEN <<keyword>> ELSE <<>>) \o
    (IF 2 \in S THEN <<"Identifier">> ELSE <<>>) \o
    (IF 3 \in S THEN <<"StringLiteral">> ELSE <<>>)

\* the terminal keyword that matches the variant of the specification
KeywordOf(spec) == IF spec.tag = "Function" THEN "Function" ELSE "Procedure"

\* C6: after `end`, the terminal keyword of the specification's variant, a name
\* and a string literal are each optional, in that order: every combination
\* followed by `;` parses, and the name is not compared with the designator;
\* a stream that ends after any combination lacks only the `;`.
C6_EchoesOptional ==
    (Returned /\ rule = "parse_subprogram_body"
        /\ KindAt(1) = "Begin" /\ KindAt(2) = "End") =>
    \A S \in SUBSET {1, 2, 3} :
        /\ KindsFrom(3) = Echoes(KeywordOf(specification.val), S) \o <<"SemiColon">> =>
              /\ result.ok
              /\ result.val = SubprogramBody(specification.val, <<>>, <<>>)
              /\ stream.pos = Len(toks)
              /\ messages = entry
        /\ KindsFrom(3) = Echoes(KeywordOf(specification.val), S) =>
              /\ ~result.ok
              /\ result.err = eof_error(stream)

\* a body ended by `end b ;` where the designator is a has been parsed
C6_Witness ==
    /\ Returned /\ rule = "parse_subprogram_body" /\ result.ok
    /\ KindsFrom(1) = <<"Begin", "End", "Identifier", "SemiColon">>
    /\ toks[3].text = "b"
    /\ specification.val.designator.item.text = "a"

\* C7: parse_subprogram_declaration keeps kind and purity: `procedure` gives
\* the Procedure variant, which has no purity, `function` gives Function with
\* pure = TRUE, `impure function` gives Function with pure = FALSE; pure is
\* FALSE only when the source says `impure`.
C7_KindAndPurity ==
    (Returned /\ rule = "parse_subprogram_declaration") =>
    /\ (KindAt(1) = "Procedure" /\ KindAt(2) \in DesignatorKinds
            /\ KindsFrom(3) = <<"SemiColon">>) =>
          /\ result.ok
          /\ result.val = SubprogramDeclaration_Procedure(DesignatorAt(2), <<>>)
    /\ (KindAt(1) = "Function" /\ KindAt(2) \in DesignatorKinds
            /\ KindsFrom(3) = <<"Return", "Identifier", "SemiColon">>) =>
          /\ result.ok
          /\ result.val = SubprogramDeclaration_Function(TRUE, DesignatorAt(2), <<>>,
                                                         NameAt(4, 4))
    /\ (KindAt(1) = "Impure" /\ KindAt(2) = "Function" /\ KindAt(3) \in DesignatorKinds
            /\ KindsFrom(4) = <<"Return", "Identifier", "SemiColon">>) =>
          /\ result.ok
          /\ result.val = SubprogramDeclaration_Function(FALSE, DesignatorAt(3), <<>>,
                                                         NameAt(5, 5))
    /\ result.ok =>
          /\ result.val.tag = "Procedure" <=> KindAt(1) = "Procedure"
          /\ result.val.tag = "Procedure" => "pure" \notin DOMAIN result.val
          /\ result.val.tag = "Function" =>
                /\ KindAt(1) \in {"Function", "Impure"}
                /\ result.val.pure <=> KindAt(1) = "Function"

\* an impure function has been parsed
C7_Witness ==
    /\ Returned /\ rule = "parse_subprogram_declaration" /\ result.ok
    /\ KindAt(1) = "Impure"
    /\ result.val.tag = "Function" /\ ~result.val.pure

IsPrefix(p, q) == Len(p) <= Len(q) /\ \A i \in 1..Len(p) : q[i] = p[i]

\* C8: the sink is append-only over every rule of subprogram.rs: what it held
\* when the rule was entered is a prefix of what it holds when the rule
\* returns, and a diagnostic a nested grammar added is still there when the
\* rule, or the rule around it, returns an error.
C8_SinkAppendOnly ==
    (Returned /\ rule \in SubprogramRules) =>
    /\ IsPrefix(entry, messages)
    /\ (rule # "parse_subprogram_body" /\ KindAt(1) = "Procedure"
            /\ KindAt(2) \in DesignatorKinds /\ KindAt(3) = "LeftPar"
            /\ KindAt(4) = "Comma") =>
          /\ Len(messages) > Len(entry)
          /\ messages[Len(entry) + 1].pos = 4
    /\ (rule = "parse_subprogram_body" /\ KindAt(1) = "Comma") =>
          /\ Len(messages) > Len(entry)
          /\ messages[Len(entry) + 1].pos = 1

\* a rule returned an error after a nested grammar added to a sink that was
\* not empty
C8_Witness ==
    /\ Returned /\ rule = "parse_subprogram" /\ ~result.ok
    /\ result.err.msg = "Expected"
    /\ entry # <<>>
    /\ Len(messages) > Len(entry)

----------------------------------------------------------------------------
(* Both files: the end of the stream at a dispatch *)

\* the stream ends where a rule dispatches on the next token
ExhaustedAtDispatch ==
    \/ /\ rule \in {"parse_entity_class", "parse_entity_name_list", "parse_designator",
                    "parse_subprogram_declaration_no_semi"}
       /\ toks = <<>>
    \/ /\ rule = "parse_entity_name_list"
       /\ \/ Alternates(1, Len(toks), "Comma")
          \/ /\ Alternates(1, Len(toks) - 2, "Comma")
             /\ KindsFrom(Len(toks) - 1) = <<"LeftSquare", "RightSquare">>
    \/ /\ rule = "parse_attribute"
       /\ KindsFrom(1) = <<"Attribute", "Identifier">>
    \/ /\ rule = "parse_signature"
       /\ KindAt(1) = "LeftSquare"
       /\ \/ MarksEnd(2) = Len(toks) + 1
          \/ /\ KindAt(MarksEnd(2)) = "Return"
             /\ NameEnd(MarksEnd(2) + 1) = Len(toks)
    \/ /\ rule = "parse_subprogram"
       /\ KindsFrom(1) \in {<<"Procedure", "Identifier">>,
                            <<"Procedure", "StringLiteral">>,
                            <<"Procedure", "Identifier", "LeftPar", "RightPar">>,
                            <<"Function", "Identifier", "Return", "Identifier">>}

\* C9: when the stream is exhausted where a rule dispatches on the next token
\* (parse_entity_class, head and separator of parse_entity_name_list,
\* parse_attribute after the identifier, loop head and separator of
\* parse_signature, parse_designator, the start of
\* parse_subprogram_declaration_no_semi, parse_subprogram after the
\* specification), the rule returns an error, the one for the end of input.
C9_ExhaustedIsError ==
    (Returned /\ ExhaustedAtDispatch) =>
    /\ ~result.ok
    /\ result.err = eof_error(stream)

\* the stream ended at the separator of parse_entity_name_list and at the
\* dispatch of parse_subprogram
C9_Witness ==
    /\ Returned /\ ExhaustedAtDispatch /\ ~result.ok
    /\ \/ rule = "parse_entity_name_list" /\ Len(toks) = 3
       \/ rule = "parse_subprogram" /\ Len(toks) = 4


----------------------------------------------------------------------------
(* attributes.rs: `others` and `all` *)

\* the entity name the keyword at token i stands for
KeywordNameAt(i) == IF KindAt(i) = "Others" THEN EntityName_Others ELSE EntityName_All

\* C11: on `attribute X of others : C is E ;` parse_attribute returns exactly
\* one Specification, whose entity name is Others, and on `all` exactly one
\* whose entity name is All; parse_entity_name_list consumes the keyword, and
\* nothing more, and returns the list of that single entity name.
C11_OthersAndAll ==
    (Returned /\ rule = "parse_attribute"
        /\ KindAt(1) = "Attribute" /\ KindAt(2) = "Identifier" /\ KindAt(3) = "Of"
        /\ KindAt(4) \in {"Others", "All"}) =>
    LET names == parse_entity_name_list([toks |-> toks, pos |-> 3]) IN
    /\ names.ok
    /\ names.val = <<KeywordNameAt(4)>>
    /\ names.stream.pos = 4
    /\ IsSpecification(5) =>
          /\ result.ok
          /\ result.val = <<Attribute_Specification(IdentAt(2), KeywordNameAt(4),
                                                    KindAt(6), IdentAt(8))>>
          /\ stream.pos = Len(toks)
    /\ result.ok =>
          /\ Len(result.val) = 1
          /\ result.val[1].tag = "Specification"
          /\ result.val[1].entity_name = KeywordNameAt(4)

\* `attribute X of others : C is E ;` has been parsed
C11_Witness ==
    /\ Returned /\ rule = "parse_attribute" /\ result.ok
    /\ KindAt(4) = "Others" /\ IsSpecification(5)
    /\ result.val[1].entity_name = EntityName_Others


----------------------------------------------------------------------------
(* subprogram.rs: parse_designator *)

\* C12: parse_designator consumes exactly one token: an identifier gives the
\* Identifier variant, a string literal the OperatorSymbol variant with the
\* text of the literal, any other kind is a syntax error; the position of the
\* result is the position of that token.  So `function "+" return T` gives
\* the operator symbol + at the position of the string literal.
C12_DesignatorOfOneToken ==
    /\ (Returned /\ rule = "parse_designator" /\ Len(toks) >= 1) =>
          /\ stream.pos = 1
          /\ KindAt(1) = "Identifier" =>
                /\ result.ok
                /\ result.val = WithPos(Designator_Identifier(toks[1].text), 1)
          /\ KindAt(1) = "StringLiteral" =>
                /\ result.ok
                /\ result.val = WithPos(Designator_OperatorSymbol(toks[1].text), 1)
          /\ KindAt(1) \notin DesignatorKinds =>
                /\ ~result.ok
                /\ result.err = kinds_error([pos |-> 1], DesignatorKinds)
    /\ (Returned /\ rule = "parse_subprogram_declaration_no_semi"
            /\ KindsFrom(1) = <<"Function", "StringLiteral", "Return", "Identifier">>) =>
          /\ result.ok
          /\ result.val.designator = WithPos(Designator_OperatorSymbol(toks[2].text), 2)

\* `function "+" return a` has been parsed
C12_Witness ==
    /\ Returned /\ rule = "parse_subprogram_declaration_no_semi" /\ result.ok
    /\ KindsFrom(1) = <<"Function", "StringLiteral", "Return", "Identifier">>
    /\ toks[2].text = "+"
    /\ result.val.designator.item.tag = "OperatorSymbol"


----------------------------------------------------------------------------
(* subprogram.rs: the cursor after an error *)

\* C13: once the first error has been raised inside a rule, the rule moves
\* the cursor no further: the cursor at return is the cursor at the first
\* error.  For parse_subprogram_declaration: where
\* parse_subprogram_declaration_no_semi fails and the next token is `;`, that
\* `;` is not consumed and the cursor stays where the failure left it.
C13_CursorStaysAtFirstError ==
    (Returned /\ rule = "parse_subprogram_declaration"
        /\ ~SpecificationAtEntry.ok
        /\ KindAt(SpecificationAtEntry.stream.pos + 1) = "SemiColon") =>
    stream.pos = SpecificationAtEntry.stream.pos


----------------------------------------------------------------------------
(* attributes.rs: parse_entity_name_list *)

\* the plain name written as token i
PlainNameAt(i) ==
    EntityName_Name(EntityTag(WithPos(Designator_Identifier(toks[i].text), i), None))

\* C14: when parse_entity_name_list succeeds on a list that starts with an
\* identifier, the cursor is at the terminating colon, which is not consumed,
\* and every comma between the names has been consumed; a token other than a
\* comma or a colon after a name and its optional signature is a syntax error.
C14_ColonNotConsumed ==
    (Returned /\ rule = "parse_entity_name_list" /\ KindAt(1) = "Identifier") =>
    /\ result.ok =>
          /\ KindAt(stream.pos + 1) = "Colon"
          /\ KindAt(stream.pos) \in {"Identifier", "RightSquare"}
          /\ \A i \in 1..Len(result.val) : result.val[i].tag = "Name"
    /\ \A k \in 1..Len(toks) :
          Alternates(1, k, "Comma") =>
             /\ KindAt(k + 1) = "Colon" =>
                   /\ result.ok
                   /\ stream.pos = k
                   /\ result.val = [i \in 1..((k + 1) \div 2) |-> PlainNameAt(2 * i - 1)]
             /\ (k < Len(toks) /\ KindAt(k + 1) \notin {"Comma", "Colon", "LeftSquare"}) =>
                   /\ ~result.ok
                   /\ result.err = kinds_error([pos |-> k + 1], {"Comma", "Colon"})
             /\ (KindAt(k + 1) = "LeftSquare" /\ KindAt(k + 2) = "RightSquare") =>
                   /\ KindAt(k + 3) = "Colon" => result.ok /\ stream.pos = k + 2
                   /\ (k + 3 <= Len(toks) /\ KindAt(k + 3) \notin {"Comma", "Colon"}) =>
                         /\ ~result.ok
                         /\ result.err = kinds_error([pos |-> k + 3], {"Comma", "Colon"})

\* the list a , b has been parsed up to its colon
C14_Witness ==
    /\ Returned /\ rule = "parse_entity_name_list" /\ result.ok
    /\ Alternates(1, 3, "Comma") /\ KindAt(4) = "Colon"
    /\ stream.pos = 3
    /\ Len(result.val) = 2


----------------------------------------------------------------------------
(* subprogram.rs: parse_subprogram_declaration_no_semi *)

\* the optional parameter list that follows the designator written as token d
ParametersAfter(d) == optional_parameter_list([toks |-> toks, pos |-> d], entry)

\* C15: a function always needs a return clause and `impure` always needs
\* `function`: after `function` or `impure function`, a designator and an
\* optional parameter list, a next token other than `return` is an error;
\* `impure` followed by anything but `function` is an error; and for
\* `procedure` no token after the designator and the parameter list is consumed.
C15_ReturnAndFunctionRequired ==
    (Returned /\ rule = "parse_subprogram_declaration_no_semi" /\ Len(toks) >= 1) =>
    LET d == IF KindAt(1) = "Impure" THEN 3 ELSE 2
        p == ParametersAfter(d).stream.pos
    IN
    /\ (KindAt(1) = "Impure" /\ KindAt(2) # "Function") =>
          /\ ~result.ok
          /\ Len(toks) >= 2 => result.err = kinds_error([pos |-> 2], {"Function"})
    /\ (KindAt(d - 1) = "Function" /\ KindAt(d) \in DesignatorKinds
            /\ ParametersAfter(d).ok) =>
          /\ KindAt(p + 1) # "Return" => ~result.ok
          /\ (p < Len(toks) /\ KindAt(p + 1) # "Return") =>
                result.err = kinds_error([pos |-> p + 1], {"Return"})
    /\ (KindAt(1) = "Procedure" /\ KindAt(2) \in DesignatorKinds
            /\ ParametersAfter(2).ok) =>
          /\ result.ok
          /\ result.val.tag = "Procedure"
          /\ stream.pos = p
    /\ (result.ok /\ result.val.tag = "Function") =>
          /\ KindAt(d - 1) = "Function"
          /\ KindAt(p + 1) = "Return"
          /\ result.val.return_type # <<>>

\* a function with a parameter list and no return clause has been refused
C15_Witness ==
    /\ Returned /\ rule = "parse_subprogram_declaration_no_semi" /\ ~result.ok
    /\ KindsFrom(1) = <<"Function", "Identifier", "LeftPar", "RightPar", "SemiColon">>
    /\ result.err = kinds_error([pos |-> 5], {"Return"})


----------------------------------------------------------------------------
(* subprogram.rs: parse_subprogram_body *)

\* the terminal keyword of the other variant
OtherKeyword(spec) == IF spec.tag = "Function" THEN "Procedure" ELSE "Function"

\* C16: after `end` parse_subprogram_body accepts only the terminal keyword of
\* the specification's variant: a function body ended by `end procedure` and a
\* procedure body ended by `end function` fail, and no SubprogramBody is
\* returned for a body in which the other keyword was read.
C16_EndKeywordMatches ==
    (Returned /\ rule = "parse_subprogram_body") =>
    /\ result.ok =>
          \A i \in 1..stream.pos : KindAt(i) # OtherKeyword(specification.val)
    /\ (KindAt(1) = "Begin" /\ KindAt(2) = "End"
            /\ KindAt(3) = OtherKeyword(specification.val)) =>
          /\ ~result.ok
          /\ result.err = kinds_error([pos |-> 3], {"SemiColon"})
    /\ (KindAt(1) = "Begin" /\ KindAt(2) = "Identifier" /\ KindAt(3) = "End"
            /\ KindAt(4) = OtherKeyword(specification.val)) =>
          /\ ~result.ok
          /\ result.err = kinds_error([pos |-> 4], {"SemiColon"})

\* a function body ended by `end procedure` has been refused
C16_Witness ==
    /\ Returned /\ rule = "parse_subprogram_body" /\ ~result.ok
    /\ specification.val.tag = "Function"
    /\ KindsFrom(1) = <<"Begin", "End", "Procedure">>


----------------------------------------------------------------------------
(* Both files: the loops end *)

\* the locals of the loop of parse_signature with the cursor after token p
SignatureLocals(p, return_mark) ==
    [stream |-> [toks |-> toks, pos |-> p], type_marks |-> <<>>,
     return_mark |-> return_mark]

\* the locals of the loop of parse_entity_name_list with the cursor after token p
EntityNameLocals(p) ==
    [stream |-> [toks |-> toks, pos |-> p], entity_name_list |-> <<>>]

\* a pass that started after token p consumed a token, broke or returned an error
Progresses(pass, p) ==
    /\ (pass.ok /\ pass.ctl = "continue") =>
          pass.l.stream.pos > p /\ pass.l.stream.pos <= Len(toks)
    /\ pass.ok => pass.ctl \in {"continue", "break"}

\* a loop ended by a break or an error, with the cursor inside the stream
Ended(end, p) ==
    /\ end.ok => end.ctl = "break" /\ end.l.stream.pos \in p..Len(toks)
    /\ ~end.ok => end.stream.pos \in p..Len(toks)

\* C17: on every finite token stream parse_signature and
\* parse_entity_name_list end with success or an error: each pass of their
\* loops consumes at least one token, breaks or returns an error, so no pass
\* leaves the cursor where it was and goes round again, and the loop started
\* anywhere in the stream ends inside the stream.
C17_LoopsEnd ==
    /\ \A p \in 0..Len(toks) :
          /\ \A return_mark \in {None, Some(<<>>)} :
                /\ Progresses(signature_loop_body(SignatureLocals(p, return_mark)), p)
                /\ Ended(signature_loop(Continue(SignatureLocals(p, return_mark))), p)
          /\ Progresses(entity_name_loop_body(EntityNameLocals(p)), p)
          /\ Ended(entity_name_loop(Continue(EntityNameLocals(p))), p)
    /\ (Returned /\ rule \in {"parse_signature", "parse_entity_name_list"}) =>
          /\ result.ok \in BOOLEAN
          /\ stream.pos <= Len(toks)

\* both loops went round twice: `[ a , b` and `a , b ,`
C17_Witness ==
    /\ Returned /\ Len(toks) = 4
    /\ \/ /\ rule = "parse_signature"
          /\ KindAt(1) = "LeftSquare" /\ Alternates(2, 4, "Comma")
       \/ /\ rule = "parse_entity_name_list"
          /\ Alternates(1, 3, "Comma") /\ KindAt(4) = "Comma"
    /\ ~result.ok /\ result.err = eof_error(stream)


----------------------------------------------------------------------------
(* attributes.rs: the lists parse_entity_name_list returns *)

\* C18: every list parse_entity_name_list returns is non-empty and is exactly
\* [Others], exactly [All], or made of Name entries only: `others` and `all`
\* are taken only as the sole, leading element, and after a comma the next
\* element must begin with an identifier, otherwise the parse fails.
C18_EntityNameListShape ==
    (Returned /\ rule = "parse_entity_name_list") =>
    /\ result.ok =>
          /\ Len(result.val) >= 1
          /\ \/ result.val = <<EntityName_Others>> /\ KindAt(1) = "Others"
             \/ result.val = <<EntityName_All>> /\ KindAt(1) = "All"
             \/ /\ KindAt(1) = "Identifier"
                /\ \A i \in 1..Len(result.val) : result.val[i].tag = "Name"
                /\ \A i \in 1..stream.pos : KindAt(i) \notin {"Others", "All"}
    /\ KindAt(1) \in {"Others", "All"} =>
          /\ result.ok
          /\ result.val = <<KeywordNameAt(1)>>
          /\ stream.pos = 1
    /\ \A k \in 1..Len(toks) :
          (Alternates(1, k, "Comma") /\ KindAt(k + 1) = "Comma") =>
             /\ KindAt(k + 2) # "Identifier" => ~result.ok
             /\ (k + 2 <= Len(toks) /\ KindAt(k + 2) # "Identifier") =>
                   result.err = kinds_error([pos |-> k + 2], {"Identifier"})

\* `others` after a comma has been refused
C18_Witness ==
    /\ Returned /\ rule = "parse_entity_name_list" /\ ~result.ok
    /\ KindsFrom(1) = <<"Identifier", "Comma", "Others">>
    /\ result.err = kinds_error([pos |-> 3], {"Identifier"})

====
